---- MODULE Spec2Model ----
(***************************************************************************)
(* A model of asktop/dbr: the batched CASE-update statement builder        *)
(* (CaseUpdateStmt) and the execution engine (exec / query) with its       *)
(* read-through cache.                                                     *)
(***************************************************************************)
EXTENDS Integers, Sequences, FiniteSets, TLC

(***************************************************************************)
(* Bounds of the model and program constants.                              *)
(***************************************************************************)
\* the longest row list a CaseUpdateStmt accumulates
MaxRows == 3
\* the most rows the database returns for a query
MaxDbRows == 2
\* the default batch size Build assigns when RunLen is 0
DefaultRunLen == 1000

(***************************************************************************)
(* Errors.  Nil is Go's nil error.                                         *)
(***************************************************************************)
Nil == "nil"
ErrTableNotSpecified == "dbr: table not specified"
ErrColumnNotSpecified == "dbr: column not specified"
ErrInterpolate == "dbr: interpolation failed"
ErrDriver == "driver: exec failed"
\* what the driver returns when the deadline of its context passes
ErrDeadline == "context deadline exceeded"
ErrCacheKey == "cache.key can not be empty"
ErrInvalidPointer == "dbr: attempt to load into an invalid pointer"
ErrLoad == "dbr: scan failed"
\* errors of the cache backend and of the gob decoder
ErrCacheGet == "cache: get failed"
ErrCacheDel == "cache: del failed"
ErrDecode == "gob: decode failed"

(***************************************************************************)
(* Helpers.                                                                *)
(***************************************************************************)
RECURSIVE Join(_)
Join(s) == IF s = <<>> THEN "" ELSE Head(s) \o Join(Tail(s))

\* the concatenation of a sequence of sequences, by halves
RECURSIVE Flatten(_)
Flatten(ss) ==
    IF ss = <<>> THEN <<>>
    ELSE IF Len(ss) = 1 THEN ss[1]
    ELSE LET h == Len(ss) \div 2
         IN Flatten(SubSeq(ss, 1, h)) \o Flatten(SubSeq(ss, h + 1, Len(ss)))

Digit(d) ==
    CASE d = 0 -> "0" [] d = 1 -> "1" [] d = 2 -> "2" [] d = 3 -> "3"
      [] d = 4 -> "4" [] d = 5 -> "5" [] d = 6 -> "6" [] d = 7 -> "7"
      [] d = 8 -> "8" [] d = 9 -> "9"

RECURSIVE Itoa(_)
Itoa(n) ==
    IF n < 0 THEN "-" \o Itoa(0 - n)
    ELSE IF n < 10 THEN Digit(n)
    ELSE Itoa(n \div 10) \o Digit(n % 10)

\* fmt.Sprint of a primary key value
Sprint(v) == IF v.kind = "int" THEN Itoa(v.n) ELSE v.s

\* Dialect.QuoteIdent
QuoteIdent(s) == "\"" \o s \o "\""

\* one entry of the call trace
Ev(op, name, key, fields) ==
    [op |-> op, name |-> name, key |-> key, fields |-> fields]

(***************************************************************************)
(* Inputs the callers draw from.                                           *)
(***************************************************************************)
Tables == {"", "t"}
\* a column name is a sequence of characters: Build inspects the last one
ColA == <<"a">>
ColBPlus == <<"b", "+">>
ColCMinus == <<"c", "-">>
ColumnLists == {<<>>, <<ColA>>, <<ColA, ColBPlus>>, <<ColCMinus>>, << <<>> >>}
\* primary key values as passed to Values: an int or a string
IntPK(n) == [kind |-> "int", n |-> n, s |-> ""]
StrPK(s) == [kind |-> "string", n |-> 0, s |-> s]
PKValues == {IntPK(1), IntPK(2), StrPK("1")}
ValTuples == {<<"x">>, <<"y">>, <<"y", "x">>}
RunLens == {-1, 0, 1, 2}
\* the keys a Custom may carry; "" is the unset key
CacheKeys == {"", "k"}
CacheExpires == {30, 60}
\* the Custom values a caller passes (the cache handle is the one cache)
Customs == [isCount : BOOLEAN, isCache : BOOLEAN, cacheKey : CacheKeys,
            cacheExpire : CacheExpires]
\* the variadic customs argument: none or one
CustomArgs == {<<>>} \cup {<<c>> : c \in Customs}
\* the destinations of Query: a pointer to a slice, a pointer to a single
\* value, and the untyped nil
Dests == {"slice", "single", "nil"}
\* the timeout of the session: 0 is unset
Timeouts == {0, 2}
\* how long the driver takes to answer a call
Resps == {1, 3}
\* what the database holds for the statement: r1, r2, ... up to MaxDbRows
DbRows == {[i \in 1..k |-> "r" \o Itoa(i)] : k \in 0..MaxDbRows}

VARIABLES
    Table,      \* CaseUpdateStmt.Table
    PKey,       \* CaseUpdateStmt.PKey
    RunLen,     \* CaseUpdateStmt.RunLen
    Column,     \* CaseUpdateStmt.Column
    Value,      \* CaseUpdateStmt.Value: the row list
    pc,         \* where the caller of the statement is: idle, exec, done, panic
    execErr,    \* the local err of Exec, and its return value once pc = "done"
    runRows,    \* the row list when the current Exec run was entered
    runRunLen,  \* RunLen when the current Exec run was entered
    driverLog,  \* the statements the current Exec run handed to the driver
    trace,      \* sink, driver and cache calls of the current run, in order
    cache,      \* the external cache: what each key holds
    last,       \* the Execute or Query call that just returned, or NoCall
    procs       \* the goroutines that run Exec on the one statement at once

cuVars == <<Table, PKey, RunLen, Column, Value, pc, execErr, runRows,
            runRunLen, driverLog, trace>>
engVars == <<cache, last>>
goVars == <<procs>>
vars == <<cuVars, engVars, goVars>>

(***************************************************************************)
(* CaseUpdateStmt.Build                                                    *)
(***************************************************************************)
\* WindowLen of loops that never break
WindowLenAll(runLen, n) == n

\* how many rows the range loops of Build visit before they break
WindowLen(runLen, n) == IF runLen > 0 /\ runLen < n THEN runLen ELSE n

\* IsDelta that knows the suffix + alone
IsDeltaPlusOnly(col) == col[Len(col)] = "+"

\* whether the column name ends in + or -
IsDelta(col) == col[Len(col)] = "+" \/ col[Len(col)] = "-"

\* the SQL text Build writes for column number i
ColumnSQL(i, col, pkey, w) ==
    (IF i > 1 THEN <<", ">> ELSE <<>>)
    \o (IF IsDelta(col)
        THEN LET c == Join(SubSeq(col, 1, Len(col) - 1))
             IN <<QuoteIdent(c), " = ", QuoteIdent(c),
                  " " \o col[Len(col)] \o " ">>
        ELSE <<QuoteIdent(Join(col)), " = ">>)
    \o <<" CASE ", QuoteIdent(pkey)>>
    \o [x \in 1..w |-> " WHEN ? THEN ? "]
    \o <<" END ">>

\* the values Build binds for column number i
ColumnValue(i, rows, w) ==
    Flatten([x \in 1..w |-> <<rows[x].Key, rows[x].Val[i]>>])

\* RemoveWindow with the cut one row too far
RemoveWindowOneMore(rows, runLen) ==
    IF Len(rows) > runLen /\ runLen # 0
    THEN SubSeq(rows, runLen + 2, Len(rows))
    ELSE <<>>

\* the rows left after the window is cut off the front
RemoveWindow(rows, runLen) ==
    IF Len(rows) > runLen /\ runLen # 0
    THEN SubSeq(rows, runLen + 1, Len(rows))
    ELSE <<>>

\* CheckSpecified without the check of the column list
CheckSpecifiedTableOnly(table, column) ==
    IF table = "" THEN ErrTableNotSpecified ELSE Nil

\* the two checks Build makes before it writes anything
CheckSpecified(table, column) ==
    IF table = "" THEN ErrTableNotSpecified
    ELSE IF Len(column) = 0 THEN ErrColumnNotSpecified
    ELSE Nil

\* b is the statement; the result carries the error, the buffer (sql, value),
\* whether the call panicked, and the statement as Build leaves it
Build(b) ==
    LET runLen == IF b.RunLen = 0 THEN DefaultRunLen ELSE b.RunLen
        b1 == [b EXCEPT !.RunLen = runLen]
        n == Len(b.Value)
        w == WindowLen(runLen, n)
        nocol == Len(b.Column)
        indexPanic ==
            \E i \in 1..nocol :
                \/ Len(b.Column[i]) = 0
                \/ \E x \in 1..w : Len(b.Value[x].Val) < i
        slicePanic == n > runLen /\ runLen < 0
        WhereKey == [x \in 1..w |-> b.Value[x].Key]
        empty == [panic |-> FALSE, err |-> Nil, sql |-> <<>>,
                  value |-> <<>>, b |-> b1]
        chk == CheckSpecified(b.Table, b.Column)
    IN  IF chk # Nil THEN [empty EXCEPT !.err = chk]
        ELSE IF indexPanic \/ slicePanic THEN [empty EXCEPT !.panic = TRUE]
        ELSE [panic |-> FALSE,
              err |-> Nil,
              sql |-> <<"UPDATE ", QuoteIdent(b.Table), " SET ">>
                      \o Flatten([i \in 1..nocol |->
                                    ColumnSQL(i, b.Column[i], b.PKey, w)])
                      \o <<" WHERE ", QuoteIdent(b.PKey), " IN (">>
                      \o Flatten([x \in 1..w |->
                                    IF x > 1 THEN <<", ", " ? ">>
                                    ELSE <<" ? ">>])
                      \o <<" )">>,
              value |-> Flatten([i \in 1..nocol |->
                                    ColumnValue(i, b.Value, w)])
                        \o WhereKey,
              b |-> [b1 EXCEPT !.Value = RemoveWindow(b.Value, runLen)]]


(***************************************************************************)
(* The cache and the gob encoding of what it holds.                        *)
(***************************************************************************)
\* a key that holds nothing
NoEntry == [kind |-> "none", count |-> 0, rows |-> <<>>, ttl |-> 0,
            ret |-> 0]
\* bytes that are no gob stream
Garbage == [kind |-> "garbage", count |-> 0, rows |-> <<>>, ttl |-> 0,
            ret |-> 0]

\* EncodeCount that encodes the variable before the scan has set it
EncodeCountUnset(count) == [kind |-> "int", count |-> 0, rows |-> <<>>]

\* encoder.Encode(&count)
EncodeCount(count) == [kind |-> "int", count |-> count, rows |-> <<>>]
\* encoder.Encode(dest): the stream carries the type of dest and its contents
EncodeDest(dest, out) == [kind |-> dest, count |-> 0, rows |-> out]

\* whether decoder.Decode accepts the entry for a target: the count (an int),
\* a destination of the type that was encoded, or the nil destination, for
\* which gob reads the value and discards it
DecodeOK(entry, target) ==
    IF target = "nil" THEN entry.kind \in {"int", "slice", "single"}
    ELSE entry.kind = target

\* custom = customs[0] when one is given, else the zero Custom
ZeroCustom == [isCount |-> FALSE, isCache |-> FALSE, cacheKey |-> "",
               cacheExpire |-> 0]
CustomOf(customs) == IF Len(customs) > 0 THEN customs[1] ELSE ZeroCustom

ErrEv(name) == Ev("EventErrKv", name, "", {"sql", "time"})

(***************************************************************************)
(* exec: the engine's Execute                                              *)
(***************************************************************************)
\* AbortOnInterpolate that goes on to the driver whatever the error
AbortNever(err) == FALSE

\* if err != nil after encodePlaceholder
AbortOnInterpolate(err) == err # Nil

\* ShouldDelete that looks at the key alone
ShouldDeleteAnyDirective(custom) == custom.cacheKey # ""

\* whether exec deletes the cache key after the driver call
ShouldDelete(custom) == custom.isCache /\ custom.cacheKey # ""

\* ErrAfterDel that hands the error of the delete to the caller
ErrAfterDelSurfaced(delOK) == IF delOK THEN Nil ELSE ErrCacheDel

\* the error exec returns once the driver call succeeded
ErrAfterDel(delOK) == Nil

\* WithTimeout that sets a deadline whatever the timeout
WithTimeoutAlways(timeout) == TRUE

\* whether exec and query put a deadline on the context they hand the driver
WithTimeout(timeout) == timeout > 0

\* the error of ExecContext or QueryContext: the driver gives up when the
\* deadline of its context passes before it has answered
Driver(env) ==
    IF WithTimeout(env.timeout) /\ env.resp > env.timeout THEN ErrDeadline
    ELSE IF env.drvOK THEN Nil
    ELSE ErrDriver

\* OnDriverError that still emits the timing event
OnDriverErrorTimed(err, store) ==
    [result |-> "nil", err |-> err, called |-> TRUE,
     trace |-> <<Ev("ExecContext", "", "", {}), ErrEv("dbr.exec.exec"),
                 Ev("TimingKv", "dbr.exec", "", {"sql"})>>,
     cache |-> store]

\* what exec returns when ExecContext returned an error
OnDriverError(err, store) ==
    [result |-> "nil", err |-> err, called |-> TRUE,
     trace |-> <<Ev("ExecContext", "", "", {}), ErrEv("dbr.exec.exec")>>,
     cache |-> store]

\* built: what Build left in the buffer; interpOK: whether the interpolator
\* accepts the statement; store: the cache; env: the timeout of the runner,
\* whether the driver call succeeds and how long it takes (drvOK, resp),
\* whether the cache delete succeeds (delOK)
exec(built, interpOK, customs, store, env) ==
    LET delOK == env.delOK
        err == IF built.err # Nil THEN built.err
               ELSE IF ~interpOK THEN ErrInterpolate ELSE Nil
        custom == CustomOf(customs)
        del == ShouldDelete(custom)
    IN  IF AbortOnInterpolate(err)
        THEN [result |-> "nil", err |-> err, called |-> FALSE,
              trace |-> <<Ev("EventErrKv", "dbr.exec.interpolate", "",
                             {"sql", "args"})>>,
              cache |-> store]
        ELSE IF Driver(env) # Nil
        THEN OnDriverError(Driver(env), store)
        ELSE [result |-> "result", err |-> ErrAfterDel(delOK),
              called |-> TRUE,
              trace |-> <<Ev("ExecContext", "", "", {})>>
                        \o (IF del
                            THEN <<Ev("Del", "", custom.cacheKey, {})>>
                                 \o (IF delOK THEN <<>>
                                     ELSE <<ErrEv("dbr.exec.cache.del")>>)
                            ELSE <<>>)
                        \o <<Ev("TimingKv", "dbr.exec", "", {"sql"})>>,
              cache |-> IF del /\ delOK
                        THEN [store EXCEPT ![custom.cacheKey] = NoEntry]
                        ELSE store]

(***************************************************************************)
(* Load: rows into the destination                                         *)
(***************************************************************************)
\* count and destination contents, or the error
Load(rows, dest, loadOK) ==
    IF dest = "nil"
    THEN [err |-> ErrInvalidPointer, count |-> 0, out |-> <<>>]
    ELSE IF ~loadOK THEN [err |-> ErrLoad, count |-> 0, out |-> <<>>]
    ELSE IF dest = "slice"
    THEN [err |-> Nil, count |-> Len(rows), out |-> rows]
    ELSE [err |-> Nil,
          count |-> IF Len(rows) > 0 THEN 1 ELSE 0,
          out |-> IF Len(rows) > 0 THEN <<rows[1]>> ELSE <<>>]

(***************************************************************************)
(* query: the engine's Query                                               *)
(***************************************************************************)
CountSQL == "SELECT COUNT(*) FROM (%s) AS count"
PlainSQL == "%s"

\* UsesCache that goes by the key of the directive
UsesCacheWhenKeyed(custom) == custom.cacheKey # ""

\* whether query reads and writes the cache: if custom.isCache
UsesCache(custom) == custom.isCache

\* OnGetError that returns the error of the cache to the caller
OnGetErrorFatal(tr) ==
    [ret |-> TRUE, count |-> 0, err |-> ErrCacheGet, out |-> <<>>,
     trace |-> tr \o <<ErrEv("dbr.select.cache.get")>>]

\* what query does with an error of cache.GetBytes: report it, go on
OnGetError(tr) ==
    [ret |-> FALSE, count |-> 0, err |-> Nil, out |-> <<>>,
     trace |-> tr \o <<ErrEv("dbr.select.cache.get")>>]

\* OnDecoded that does not return: the call goes on to the database
OnDecodedFallThrough(custom, dest, entry, tr) ==
    [ret |-> FALSE, count |-> 0, err |-> Nil, out |-> <<>>, trace |-> tr]

\* what query does once the entry decoded without error
OnDecoded(custom, dest, entry, tr) ==
    IF custom.isCount
    THEN [ret |-> TRUE, count |-> entry.count, err |-> Nil, out |-> <<>>,
          trace |-> tr \o <<Ev("TimingKv", "dbr.select.cache", "", {"sql"})>>]
    ELSE IF dest = "nil"
    THEN [ret |-> TRUE, count |-> 0, err |-> ErrInvalidPointer, out |-> <<>>,
          trace |-> tr \o <<ErrEv("dbr.select.cache.decode")>>]
    ELSE [ret |-> TRUE,
          count |-> IF dest = "slice" THEN Len(entry.rows) ELSE 1,
          err |-> Nil, out |-> entry.rows,
          trace |-> tr \o <<Ev("TimingKv", "dbr.select.cache", "", {"sql"})>>]

\* the cache read of query; ret says whether query returns from it
CacheRead(custom, dest, store, env) ==
    LET entry == store[custom.cacheKey]
        tr == <<Ev("GetBytes", "", custom.cacheKey, {})>>
        miss == [ret |-> FALSE, count |-> 0, err |-> Nil, out |-> <<>>,
                 trace |-> tr]
    IN  IF ~env.getOK THEN OnGetError(tr)
        ELSE IF entry.kind = "none" THEN miss
        ELSE IF ~DecodeOK(entry, IF custom.isCount THEN "int" ELSE dest)
        THEN [miss EXCEPT
                !.trace = tr \o <<ErrEv("dbr.select.cache.decode")>>]
        ELSE OnDecoded(custom, dest, entry, tr)

\* the database read of query: queryCount, or queryRows and Load
DbRead(interpOK, custom, dest, env) ==
    LET sql == IF custom.isCount THEN CountSQL ELSE PlainSQL
        fail(e, tr) == [err |-> e, count |-> 0, out |-> <<>>, trace |-> tr]
        ld == Load(env.rows, dest, env.loadOK)
    IN  IF ~interpOK
        THEN fail(ErrInterpolate,
                  <<Ev("EventErrKv", "dbr.select.interpolate", "",
                       {"sql", "args"}),
                    ErrEv("dbr.select.load.scan")>>)
        ELSE IF Driver(env) # Nil
        THEN fail(Driver(env),
                  <<Ev("QueryContext", sql, "", {}),
                    ErrEv("dbr.select.load.query"),
                    ErrEv("dbr.select.load.scan")>>)
        ELSE IF custom.isCount
        THEN [err |-> Nil, count |-> Len(env.rows), out |-> <<>>,
              trace |-> <<Ev("QueryContext", sql, "", {})>>]
        ELSE IF ld.err # Nil
        THEN fail(ld.err,
                  <<Ev("QueryContext", sql, "", {}),
                    ErrEv("dbr.select.load.scan")>>)
        ELSE [err |-> Nil, count |-> ld.count, out |-> ld.out,
              trace |-> <<Ev("QueryContext", sql, "", {})>>]

\* CacheWrite that stores whatever the encoder left when it failed
CacheWriteDespiteEncodeError(custom, dest, db, store, env) ==
    LET blob == IF custom.isCount THEN EncodeCount(db.count)
                ELSE EncodeDest(dest, db.out)
        entry == [kind |-> IF env.encOK THEN blob.kind ELSE "garbage",
                  count |-> blob.count, rows |-> blob.rows,
                  ttl |-> custom.cacheExpire, ret |-> db.count]
    IN  IF ~UsesCache(custom) THEN [trace |-> <<>>, cache |-> store]
        ELSE IF ~env.setOK
        THEN [trace |-> <<Ev("Set", "", custom.cacheKey, {}),
                          ErrEv("dbr.select.cache.set")>>,
              cache |-> store]
        ELSE [trace |-> <<Ev("Set", "", custom.cacheKey, {})>>,
              cache |-> [store EXCEPT ![custom.cacheKey] = entry]]

\* the encoding and the store of query, after a database read that succeeded;
\* beside the bytes and the TTL an entry records, for the history, the count
\* that the call which stored it returned (ret)
CacheWrite(custom, dest, db, store, env) ==
    LET blob == IF custom.isCount THEN EncodeCount(db.count)
                ELSE EncodeDest(dest, db.out)
        entry == [kind |-> blob.kind, count |-> blob.count,
                  rows |-> blob.rows, ttl |-> custom.cacheExpire,
                  ret |-> db.count]
    IN  IF ~UsesCache(custom) THEN [trace |-> <<>>, cache |-> store]
        ELSE IF ~env.encOK
        THEN [trace |-> <<ErrEv("dbr.select.cache.encode")>>,
              cache |-> store]
        ELSE IF ~env.setOK
        THEN [trace |-> <<Ev("Set", "", custom.cacheKey, {}),
                          ErrEv("dbr.select.cache.set")>>,
              cache |-> store]
        ELSE [trace |-> <<Ev("Set", "", custom.cacheKey, {})>>,
              cache |-> [store EXCEPT ![custom.cacheKey] = entry]]

\* the driver call of a Query with caching starts when the cache read has
\* returned: its answer comes that much later after the deadline was set
AfterCacheRead(custom, env) ==
    IF UsesCache(custom) THEN [env EXCEPT !.resp = @ + env.cacheResp]
    ELSE env

\* OnEmptyKey that returns without an error
OnEmptyKeySilent(store) ==
    [count |-> 0, err |-> Nil, out |-> <<>>, trace |-> <<>>, cache |-> store]

\* what query returns when caching is enabled and the key is empty
OnEmptyKey(store) ==
    [count |-> 0, err |-> ErrCacheKey, out |-> <<>>,
     trace |-> <<ErrEv("dbr.select.cache.key")>>, cache |-> store]

\* the result of query: count, err, the destination, the trace, the cache
query(interpOK, dest, customs, store, env) ==
    LET custom == CustomOf(customs)
        ret(count, err, out, tr, st) ==
            [count |-> count, err |-> err, out |-> out, trace |-> tr,
             cache |-> st]
        rd == CacheRead(custom, dest, store, env)
        pre == IF UsesCache(custom) THEN rd.trace ELSE <<>>
        db == DbRead(interpOK, custom, dest, AfterCacheRead(custom, env))
        wr == CacheWrite(custom, dest, db, store, env)
    IN  IF UsesCache(custom) /\ ~interpOK
        THEN ret(0, ErrInterpolate, <<>>,
                 <<ErrEv("dbr.select.cache.getSQL")>>, store)
        ELSE IF UsesCache(custom) /\ custom.cacheKey = ""
        THEN OnEmptyKey(store)
        ELSE IF UsesCache(custom) /\ rd.ret
        THEN ret(rd.count, rd.err, rd.out, rd.trace, store)
        ELSE IF db.err # Nil
        THEN ret(0, db.err, db.out, pre \o db.trace, store)
        ELSE ret(db.count, Nil, db.out,
                 pre \o db.trace \o wr.trace
                     \o <<Ev("TimingKv", "dbr.select", "", {"sql"})>>,
                 wr.cache)

(***************************************************************************)
(* The CaseUpdateStmt and its caller.                                      *)
(***************************************************************************)
Stmt == [Table |-> Table, PKey |-> PKey, RunLen |-> RunLen,
         Column |-> Column, Value |-> Value]

Callable == pc = "idle" \/ pc = "done"

NoCall == [op |-> "none", interpOK |-> TRUE, dest |-> "", customs |-> <<>>,
           env |-> <<>>, result |-> "nil", count |-> 0, err |-> Nil,
           out |-> <<>>, trace |-> <<>>, before |-> <<>>]

\* no engine call is under way: the next one may start
Ready == last.op = "none"

\* CaseUpdate(table)
InitCaseUpdate ==
    /\ Table \in Tables
    /\ PKey = ""
    /\ RunLen = 0
    /\ Column = <<>>
    /\ Value = <<>>
    /\ pc = "idle"
    /\ execErr = Nil
    /\ runRows = <<>>
    /\ runRunLen = 0
    /\ driverLog = <<>>
    /\ trace = <<>>
    /\ cache = [k \in CacheKeys \ {""} |-> NoEntry]
    /\ last = NoCall
    /\ procs = <<>>

\* a builder call after Exec returned: the record of that run is dropped
ForgetRun ==
    /\ pc' = "idle"
    /\ execErr' = Nil
    /\ runRows' = <<>>
    /\ runRunLen' = 0
    /\ driverLog' = <<>>
    /\ trace' = <<>>

Columns(pk, column) ==
    /\ Callable
    /\ PKey' = pk
    /\ Column' = column
    /\ ForgetRun
    /\ UNCHANGED <<Table, RunLen, Value, engVars, goVars>>

\* the rows of Values after the loop over the existing entries
ReplaceVal(rows, pk, value) ==
    [k \in 1..Len(rows) |->
        IF rows[k].Key = pk THEN [rows[k] EXCEPT !.Val = value] ELSE rows[k]]

Values(PKValue, value) ==
    /\ Callable
    /\ Len(Value) < MaxRows
    /\ Value' = Append(ReplaceVal(Value, Sprint(PKValue), value),
                       [Key |-> Sprint(PKValue), Val |-> value])
    /\ ForgetRun
    /\ UNCHANGED <<Table, PKey, RunLen, Column, engVars, goVars>>

SetRunLen(i) ==
    /\ Callable
    /\ RunLen' = i
    /\ ForgetRun
    /\ UNCHANGED <<Table, PKey, Column, Value, engVars, goVars>>

\* ExecLoop that goes on after an error
ExecLoopIgnoringErr(n, err) == n > 0

\* the condition of Exec's loop
ExecLoop(n, err) == n > 0 /\ err = Nil

\* Exec is entered: var err error
ExecCall ==
    /\ Callable
    /\ pc' = "exec"
    /\ execErr' = Nil
    /\ runRows' = Value
    /\ runRunLen' = RunLen
    /\ driverLog' = <<>>
    /\ trace' = <<>>
    /\ UNCHANGED <<Table, PKey, RunLen, Column, Value, engVars, goVars>>

\* the row list after Values(1, "y", "x"), ..., Values(n, "y", "x")
RowList(n) ==
    [x \in 1..n |-> [Key |-> Sprint(IntPK(x)), Val |-> <<"y", "x">>]]

\* a session without timeout, and a driver that answers at once
NoTimeout(drvOK) ==
    [drvOK |-> drvOK, delOK |-> TRUE, resp |-> 1, timeout |-> 0,
     cacheResp |-> 0]

\* ExecIter that puts the window back when the statement was not executed
ExecIterRetrying ==
    /\ pc = "exec"
    /\ ExecLoop(Len(Value), execErr)
    /\ \E interpOK, drvOK \in BOOLEAN :
        LET built == Build(Stmt)
            r == exec(built, interpOK, <<>>, cache, NoTimeout(drvOK))
        IN  /\ RunLen' = built.b.RunLen
            /\ Value' = IF r.err # Nil THEN Value ELSE built.b.Value
            /\ IF built.panic
               THEN /\ pc' = "panic"
                    /\ UNCHANGED <<execErr, driverLog, trace>>
               ELSE /\ pc' = "exec"
                    /\ execErr' = r.err
                    /\ trace' = trace \o r.trace
                    /\ driverLog' =
                         IF r.called
                         THEN Append(driverLog,
                                     [sql |-> built.sql, value |-> built.value,
                                      ok |-> r.err = Nil])
                         ELSE driverLog
    /\ UNCHANGED <<Table, PKey, Column, runRows, runRunLen, engVars, goVars>>

\* one turn of Exec's loop: ExecContext, that is exec on the statement with
\* no Custom
ExecIter ==
    /\ pc = "exec"
    /\ ExecLoop(Len(Value), execErr)
    /\ \E interpOK, drvOK \in BOOLEAN :
        LET built == Build(Stmt)
            r == exec(built, interpOK, <<>>, cache, NoTimeout(drvOK))
        IN  /\ RunLen' = built.b.RunLen
            /\ Value' = built.b.Value
            /\ IF built.panic
               THEN /\ pc' = "panic"
                    /\ UNCHANGED <<execErr, driverLog, trace>>
               ELSE /\ pc' = "exec"
                    /\ execErr' = r.err
                    /\ trace' = trace \o r.trace
                    /\ driverLog' =
                         IF r.called
                         THEN Append(driverLog,
                                     [sql |-> built.sql, value |-> built.value,
                                      ok |-> r.err = Nil])
                         ELSE driverLog
    /\ UNCHANGED <<Table, PKey, Column, runRows, runRunLen, engVars, goVars>>

\* the loop condition fails: return err
ExecReturn ==
    /\ pc = "exec"
    /\ ~ExecLoop(Len(Value), execErr)
    /\ pc' = "done"
    /\ UNCHANGED <<Table, PKey, RunLen, Column, Value, execErr, runRows,
                   runRunLen, driverLog, trace, engVars, goVars>>

NextCaseUpdate ==
    \/ \E column \in ColumnLists : Columns("id", column)
    \/ \E PKValue \in PKValues, value \in ValTuples : Values(PKValue, value)
    \/ \E i \in RunLens : SetRunLen(i)
    \/ ExecCall
    \/ ExecIter
    \/ ExecReturn

SpecCaseUpdate == InitCaseUpdate /\ [][NextCaseUpdate]_vars

(***************************************************************************)
(* The engine and its callers: Execute and Query on any Buildable, against *)
(* a cache that also expires entries and may hold bytes of other writers.  *)
(***************************************************************************)
\* what the environment answers during one Query
QueryEnvs == [getOK : BOOLEAN, drvOK : BOOLEAN, rows : DbRows,
              loadOK : BOOLEAN, encOK : BOOLEAN, setOK : BOOLEAN,
              resp : Resps, timeout : Timeouts, cacheResp : {0}]
\* what the environment answers during one Execute
ExecEnvs == [drvOK : BOOLEAN, delOK : BOOLEAN, resp : Resps,
             timeout : Timeouts, cacheResp : {0}]

\* a Buildable that builds without error
Built == [panic |-> FALSE, err |-> Nil, sql |-> <<PlainSQL>>, value |-> <<>>]

InitEngine ==
    /\ Table = ""
    /\ PKey = ""
    /\ RunLen = 0
    /\ Column = <<>>
    /\ Value = <<>>
    /\ pc = "idle"
    /\ execErr = Nil
    /\ runRows = <<>>
    /\ runRunLen = 0
    /\ driverLog = <<>>
    /\ trace = <<>>
    /\ cache = [k \in CacheKeys \ {""} |-> NoEntry]
    /\ last = NoCall
    /\ procs = <<>>

Execute(interpOK, customs, env) ==
    LET r == exec(Built, interpOK, customs, cache, env)
    IN  /\ cache' = r.cache
        /\ last' = [op |-> "Execute", interpOK |-> interpOK, dest |-> "",
                    customs |-> customs, env |-> env, result |-> r.result,
                    count |-> 0, err |-> r.err, out |-> <<>>,
                    trace |-> r.trace, before |-> cache]
        /\ UNCHANGED <<cuVars, goVars>>

Query(interpOK, dest, customs, env) ==
    LET r == query(interpOK, dest, customs, cache, env)
    IN  /\ cache' = r.cache
        /\ last' = [op |-> "Query", interpOK |-> interpOK, dest |-> dest,
                    customs |-> customs, env |-> env, result |-> "nil",
                    count |-> r.count, err |-> r.err, out |-> r.out,
                    trace |-> r.trace, before |-> cache]
        /\ UNCHANGED <<cuVars, goVars>>

\* the caller takes the result of the call
Return ==
    /\ ~Ready
    /\ last' = NoCall
    /\ UNCHANGED <<cuVars, goVars, cache>>

\* the TTL of an entry runs out
Expire(k) ==
    /\ Ready
    /\ cache[k].kind # "none"
    /\ cache' = [cache EXCEPT ![k] = NoEntry]
    /\ UNCHANGED <<cuVars, goVars, last>>

\* the bytes under a key are damaged, or written by another program
Corrupt(k) ==
    /\ Ready
    /\ cache[k] # Garbage
    /\ cache' = [cache EXCEPT ![k] = Garbage]
    /\ UNCHANGED <<cuVars, goVars, last>>

NextEngine ==
    \/ /\ Ready
       /\ \E interpOK \in BOOLEAN, customs \in CustomArgs, env \in ExecEnvs :
            Execute(interpOK, customs, env)
    \/ /\ Ready
       /\ \E interpOK \in BOOLEAN, dest \in Dests, customs \in CustomArgs,
             env \in QueryEnvs :
            Query(interpOK, dest, customs, env)
    \/ Return
    \/ \E k \in CacheKeys \ {""} : Expire(k)
    \/ \E k \in CacheKeys \ {""} : Corrupt(k)

SpecEngine == InitEngine /\ [][NextEngine]_vars

(***************************************************************************)
(* Reading the history: the statements of a run and the trace of a call.   *)
(***************************************************************************)
\* how many entries of a sequence satisfy op = o
RECURSIVE CountOp(_, _)
CountOp(tr, o) ==
    IF tr = <<>> THEN 0
    ELSE (IF Head(tr).op = o THEN 1 ELSE 0) + CountOp(Tail(tr), o)

\* how many tokens of an SQL text equal tok
CountTok(sql, tok) == Cardinality({k \in 1..Len(sql) : sql[k] = tok})

\* the window of a statement: one placeholder of the IN list per row
StmtWindow(st) == CountTok(st.sql, " ? ")
\* the keys of its IN list: the last bound values
StmtWhereKeys(st) ==
    SubSeq(st.value, Len(st.value) - StmtWindow(st) + 1, Len(st.value))
\* the key and the value of WHEN clause x of column i
StmtWhenKey(st, i, x) == st.value[(i - 1) * 2 * StmtWindow(st) + 2 * x - 1]
StmtWhenVal(st, i, x) == st.value[(i - 1) * 2 * StmtWindow(st) + 2 * x]

\* how many rows the statements before statement j of the run carried
RECURSIVE SentBefore(_)
SentBefore(j) ==
    IF j <= 1 THEN 0
    ELSE SentBefore(j - 1) + StmtWindow(driverLog[j - 1])

\* statement j of the run carries, for every column and in order, exactly
\* the rows of the entry row list from position SentBefore(j) + 1 on
CarriesItsWindow(j) ==
    LET st == driverLog[j]
        o == SentBefore(j)
        w == StmtWindow(st)
    IN  /\ w >= 1
        /\ o + w <= Len(runRows)
        /\ \A x \in 1..w :
            /\ StmtWhereKeys(st)[x] = runRows[o + x].Key
            /\ \A i \in 1..Len(Column) :
                /\ StmtWhenKey(st, i, x) = runRows[o + x].Key
                /\ StmtWhenVal(st, i, x) = runRows[o + x].Val[i]

CeilDiv(n, k) == (n + k - 1) \div k

(***************************************************************************)
(* Claims about CaseUpdateStmt, under SpecCaseUpdate.                      *)
(***************************************************************************)
\* C1: with a table and columns, N >= 1 rows and batch size K >= 1, an Exec
\* that returns nil has issued exactly ceil(N/K) driver executions, all of
\* them successful, and leaves the row list empty.
C1_ExecDrainsInCeilNOverK ==
    (/\ pc = "done" /\ execErr = Nil
     /\ Table # "" /\ Column # <<>>
     /\ Len(runRows) >= 1 /\ runRunLen >= 1)
    => /\ Len(driverLog) = CeilDiv(Len(runRows), runRunLen)
       /\ \A j \in 1..Len(driverLog) : driverLog[j].ok
       /\ Value = <<>>

\* three rows in batches of two: two executions, the list drained
C1_Witness ==
    /\ pc = "done" /\ execErr = Nil
    /\ Len(runRows) = 3 /\ runRunLen = 2
    /\ Len(driverLog) = 2 /\ Value = <<>>

\* C2: a driver failure ends the run: the failed execution is the last one of
\* the run and its error is what Exec holds and returns; and the statements
\* of a run carry consecutive, disjoint windows of the row list, so no row
\* is submitted twice.
C2_StopsAtFirstDriverError ==
    (pc = "exec" \/ pc = "done")
    => /\ \A j \in 1..Len(driverLog) :
            ~driverLog[j].ok
            => (j = Len(driverLog) /\ execErr = ErrDriver)
       /\ execErr = ErrDriver
            => (driverLog # <<>> /\ ~driverLog[Len(driverLog)].ok)
       /\ \A j \in 1..Len(driverLog) : CarriesItsWindow(j)

\* the driver fails on the second of three windows: Exec has returned the
\* error, and the third window was never sent
C2_Witness ==
    /\ pc = "done" /\ execErr = ErrDriver
    /\ Len(runRows) = 3 /\ runRunLen = 1
    /\ Len(driverLog) = 2 /\ driverLog[1].ok /\ ~driverLog[2].ok
    /\ Len(Value) = 1

\* C3: the row list never holds two entries with the same primary key, and
\* no statement sent to the driver names a key twice in its IN list.
C3_OneEntryPerKey ==
    /\ \A x, y \in 1..Len(Value) : Value[x].Key = Value[y].Key => x = y
    /\ \A j \in 1..Len(driverLog) :
        LET keys == StmtWhereKeys(driverLog[j])
        IN  \A x, y \in 1..Len(keys) : keys[x] = keys[y] => x = y

\* what Build answers for a statement without table or without columns
Unspecified == Table = "" \/ Column = <<>>
UnspecifiedErr ==
    IF Table = "" THEN ErrTableNotSpecified ELSE ErrColumnNotSpecified

\* C10 as stated: an Exec on a statement without table, or without columns,
\* returns the table or column error, with no driver execution and the row
\* list unchanged.
C10_ExecAlwaysReturnsTheError ==
    (pc = "done" /\ Unspecified)
    => /\ execErr = UnspecifiedErr
       /\ driverLog = <<>>
       /\ Value = runRows

\* C10, amended: Build on a statement without table fails with the table
\* error, and with a table but no columns with the column error, writing no
\* SQL and no value and leaving the row list as it is; an Exec entered with
\* a non-empty row list returns that error without any driver execution.
C10_BuildRefusesUnspecified ==
    /\ (Callable /\ Unspecified)
        => LET r == Build(Stmt)
           IN  /\ ~r.panic
               /\ r.err = UnspecifiedErr
               /\ r.sql = <<>> /\ r.value = <<>>
               /\ r.b.Value = Value
    /\ (pc = "done" /\ Unspecified /\ runRows # <<>>)
        => /\ execErr = UnspecifiedErr
           /\ driverLog = <<>>
           /\ CountOp(trace, "ExecContext") = 0
           /\ Value = runRows

\* a table, rows, no columns: Exec returned the column error
C10_Witness ==
    /\ pc = "done" /\ Table # "" /\ Column = <<>>
    /\ Len(runRows) = 2 /\ Value = runRows
    /\ execErr = ErrColumnNotSpecified

(***************************************************************************)
(* Claims about the engine, under SpecEngine.                              *)
(***************************************************************************)
\* the Custom of the call that just returned, and what its key held before
LastCustom == CustomOf(last.customs)
LastEntry == last.before[LastCustom.cacheKey]
\* the call was a Query that read the cache
ReadTheCache ==
    /\ last.op = "Query"
    /\ LastCustom.isCache /\ LastCustom.cacheKey # ""
    /\ last.interpOK
\* what the entry would have to decode into
LastTarget == IF LastCustom.isCount THEN "int" ELSE last.dest
\* the driver call of the last call, if it made one, succeeded: the driver
\* did not fail and answered before the deadline, if there was one
DriverSucceeded ==
    /\ last.env.drvOK
    /\ (last.env.timeout > 0 => last.env.resp <= last.env.timeout)

\* the cache read found an entry and decoded it
DecodedAHit ==
    /\ ReadTheCache
    /\ last.env.getOK
    /\ LastEntry.kind # "none"
    /\ DecodeOK(LastEntry, LastTarget)
\* the cache read failed in the backend, or found bytes that do not decode
CacheReadFailed ==
    /\ ReadTheCache
    /\ \/ ~last.env.getOK
       \/ LastEntry.kind # "none" /\ ~DecodeOK(LastEntry, LastTarget)

\* C4: when the cache read of a Query fails in the backend or yields bytes
\* that do not decode, the call queries the driver once, its error is nil
\* exactly when the driver query and the loading of the rows succeed, and
\* the error it returns is never an error of the cache.
C4_CacheReadFailureFallsThrough ==
    CacheReadFailed
    => /\ CountOp(last.trace, "QueryContext") = 1
       /\ (last.err = Nil)
            <=> (/\ DriverSucceeded
                 /\ (LastCustom.isCount
                        \/ (last.dest # "nil" /\ last.env.loadOK)))
       /\ last.err \notin {ErrCacheGet, ErrCacheDel, ErrDecode}

\* the backend fails the read, the database answers: the call succeeds with
\* the rows of the database
C4_Witness ==
    /\ CacheReadFailed /\ ~last.env.getOK
    /\ last.dest = "slice" /\ ~LastCustom.isCount
    /\ last.err = Nil /\ last.count = 2 /\ Len(last.out) = 2

\* C5 as stated: a Query whose cache read decodes an entry returns the
\* decoded result with a nil error, without a driver query and without a
\* cache write.
C5_HitReturnsNilError ==
    DecodedAHit
    => /\ last.err = Nil
       /\ CountOp(last.trace, "QueryContext") = 0
       /\ CountOp(last.trace, "Set") = 0
       /\ cache = last.before

\* C5, amended: a Query whose cache read decodes an entry makes no driver
\* query and no cache write; it returns the decoded count, or the decoded
\* destination with its length (1 for a single value), and a nil error,
\* unless rows are wanted and the destination is no pointer to decode into
\* (nil): then it returns 0 and the invalid-pointer error.
C5_HitSkipsTheDatabase ==
    DecodedAHit
    => /\ CountOp(last.trace, "QueryContext") = 0
       /\ CountOp(last.trace, "Set") = 0
       /\ cache = last.before
       /\ IF LastCustom.isCount
          THEN last.err = Nil /\ last.count = LastEntry.count
          ELSE IF last.dest = "nil"
          THEN last.err = ErrInvalidPointer /\ last.count = 0
          ELSE /\ last.err = Nil
               /\ last.out = LastEntry.rows
               /\ last.count = IF last.dest = "slice"
                                THEN Len(LastEntry.rows) ELSE 1

\* a slice of two rows comes back from the cache
C5_Witness ==
    /\ DecodedAHit
    /\ last.dest = "slice" /\ ~LastCustom.isCount
    /\ last.err = Nil /\ last.count = 2 /\ Len(last.out) = 2

\* C6: a Query that decodes the entry which a Query with the same directive
\* and destination stored returns the count which that call returned, and
\* the destination contents which it encoded.
C6_SecondCallRepeatsTheFirst ==
    (/\ DecodedAHit
     /\ LastEntry.kind = LastTarget
     /\ LastEntry.ttl = LastCustom.cacheExpire)
    => /\ last.err = Nil
       /\ last.count = LastEntry.ret
       /\ last.out = LastEntry.rows

\* how often the call deleted a cache key
Deletes == CountOp(last.trace, "Del")
\* the Execute call reached the end: the driver execution succeeded
Executed == last.op = "Execute" /\ last.interpOK /\ DriverSucceeded

\* C7 as stated: after a successful driver execution Execute deletes the
\* key once whenever a directive with a non-empty key is supplied, enabled
\* or not, and deletes nothing otherwise.
C7_DeletesWhateverTheFlag ==
    Executed
    => Deletes = IF last.customs # <<>> /\ LastCustom.cacheKey # ""
                 THEN 1 ELSE 0

\* C7, amended: after a successful driver execution Execute deletes the
\* key exactly once when the directive is enabled and its key is not empty,
\* and performs no delete when the directive is disabled, its key is empty,
\* or none is supplied; an Execute that fails deletes nothing.
C7_DeletesWhenEnabledWithKey ==
    last.op = "Execute"
    => /\ Deletes = IF Executed /\ LastCustom.isCache
                       /\ LastCustom.cacheKey # ""
                    THEN 1 ELSE 0
       /\ \A i \in 1..Len(last.trace) :
            last.trace[i].op = "Del"
            => last.trace[i].key = LastCustom.cacheKey
       /\ \A k \in DOMAIN cache :
            cache[k] = IF Deletes = 1 /\ last.env.delOK
                          /\ k = LastCustom.cacheKey
                       THEN NoEntry ELSE last.before[k]

\* an enabled directive with a key: the entry it held is gone
C7_Witness ==
    /\ Executed /\ LastCustom.isCache /\ LastCustom.cacheKey = "k"
    /\ Deletes = 1
    /\ last.before["k"].kind = "slice" /\ cache["k"] = NoEntry

\* C8: when the driver execution succeeds and the cache delete fails,
\* Execute returns the result of the driver with a nil error, has reported
\* the failure of the delete to the sink, and ends with the timing event.
C8_DeleteFailureIsNotFatal ==
    (/\ Executed
     /\ LastCustom.isCache /\ LastCustom.cacheKey # ""
     /\ ~last.env.delOK)
    => /\ last.result = "result" /\ last.err = Nil
       /\ \E i \in 1..Len(last.trace) :
            last.trace[i] = ErrEv("dbr.exec.cache.del")
       /\ last.trace[Len(last.trace)]
            = Ev("TimingKv", "dbr.exec", "", {"sql"})
       /\ CountOp(last.trace, "TimingKv") = 1

\* the delete failed, the entry is still there, the call succeeded
C8_Witness ==
    /\ Executed /\ LastCustom.isCache /\ LastCustom.cacheKey = "k"
    /\ ~last.env.delOK /\ Deletes = 1
    /\ last.err = Nil /\ cache["k"].kind = "int"

\* C9: when the interpolation fails, Execute reports the error to the sink
\* and returns it; it makes no driver call, no cache delete and emits no
\* timing event.
C9_InterpolationFailureAborts ==
    (last.op = "Execute" /\ ~last.interpOK)
    => /\ last.err = ErrInterpolate
       /\ last.trace = <<Ev("EventErrKv", "dbr.exec.interpolate", "",
                            {"sql", "args"})>>
       /\ CountOp(last.trace, "ExecContext") = 0
       /\ CountOp(last.trace, "Del") = 0
       /\ CountOp(last.trace, "TimingKv") = 0
       /\ cache = last.before

\* the statement does not interpolate, the directive names a cached key
C9_Witness ==
    /\ last.op = "Execute" /\ ~last.interpOK
    /\ LastCustom.isCache /\ LastCustom.cacheKey = "k"
    /\ last.env.drvOK /\ cache["k"].kind = "slice"
    /\ last.err = ErrInterpolate

(***************************************************************************)
(* A statement that holds about as many rows as the default RunLen: the    *)
(* caller has made one Values call per row before the first step.          *)
(***************************************************************************)
LargeLens == {DefaultRunLen - 1, DefaultRunLen, DefaultRunLen + 1}
LargeRunLens == {0, DefaultRunLen - 1, DefaultRunLen + 1}

InitLarge ==
    /\ Table = "t"
    /\ PKey = "id"
    /\ RunLen = 0
    /\ Column \in {<<ColA>>, <<ColA, ColBPlus>>}
    /\ \E n \in LargeLens : Value = RowList(n)
    /\ pc = "idle"
    /\ execErr = Nil
    /\ runRows = <<>>
    /\ runRunLen = 0
    /\ driverLog = <<>>
    /\ trace = <<>>
    /\ cache = [k \in CacheKeys \ {""} |-> NoEntry]
    /\ last = NoCall
    /\ procs = <<>>

NextLarge ==
    \/ \E i \in LargeRunLens : SetRunLen(i)
    \/ ExecCall
    \/ ExecIter
    \/ ExecReturn

SpecLarge == InitLarge /\ [][NextLarge]_vars

\* C11: a batch size of 0 means unbounded: in an Exec run entered with
\* RunLen = 0 the first statement sent carries every row the statement held,
\* however many, and the row list is empty after that one cycle
C11_ZeroRunLenIsUnbounded ==
    (pc \in {"exec", "done"} /\ runRunLen = 0 /\ Len(driverLog) >= 1)
        => /\ Len(StmtWhereKeys(driverLog[1])) = Len(runRows)
           /\ Value = <<>>

(***************************************************************************)
(* Claims about the engine, continued.                                     *)
(***************************************************************************)
\* the last call was a Query with caching enabled and no key, on a statement
\* that interpolates
QueryWithoutKey ==
    /\ last.op = "Query"
    /\ LastCustom.isCache /\ LastCustom.cacheKey = ""
    /\ last.interpOK

\* C12: a Query with caching enabled and an empty cache key, on a statement
\* that interpolates, returns the missing-key error and count 0; it reads
\* nothing from the cache, sends nothing to the driver, writes nothing to
\* the cache and leaves the destination alone.
C12_EmptyKeyIsAnError ==
    QueryWithoutKey
    => /\ last.err = "cache.key can not be empty"
       /\ last.count = 0 /\ last.out = <<>>
       /\ CountOp(last.trace, "GetBytes") = 0
       /\ CountOp(last.trace, "QueryContext") = 0
       /\ CountOp(last.trace, "Set") = 0
       /\ cache = last.before

\* no key, a database that would answer with two rows, a cache that holds an
\* entry: the call fails with the missing-key error
C12_Witness ==
    /\ QueryWithoutKey
    /\ last.env.drvOK /\ Len(last.env.rows) = 2 /\ last.dest = "slice"
    /\ last.before["k"].kind = "slice"
    /\ last.err = ErrCacheKey

\* the last call was a Query with caching enabled that went on to the
\* database after its cache read: a miss, a read error or a decode failure
ReachedTheDatabase == ReadTheCache /\ ~DecodedAHit
\* the rows were loaded into the destination (the count needs no loading)
Loaded == LastCustom.isCount \/ (last.dest # "nil" /\ last.env.loadOK)
\* what the database read of the last call yields: the count and the
\* contents of the destination
DbCount ==
    IF LastCustom.isCount \/ last.dest = "slice" THEN Len(last.env.rows)
    ELSE IF Len(last.env.rows) > 0 THEN 1 ELSE 0
DbOut ==
    IF LastCustom.isCount THEN <<>>
    ELSE IF last.dest = "slice" THEN last.env.rows
    ELSE IF Len(last.env.rows) > 0 THEN <<last.env.rows[1]>> ELSE <<>>
\* the Set calls of the last call
Sets == CountOp(last.trace, "Set")

\* C13 as stated: a Query with caching enabled that reaches the database and
\* whose driver query succeeds returns the database result with a nil
\* error, stores once if the encoding succeeds and attempts no store if it
\* fails.
C13_DriverSuccessIsEnough ==
    (ReachedTheDatabase /\ DriverSucceeded)
    => /\ last.err = Nil
       /\ Sets = IF last.env.encOK THEN 1 ELSE 0

\* C13, amended: a Query with caching enabled that reaches the database and
\* whose driver query and row loading succeed returns the database result
\* with a nil error whatever the encoder and the cache do; it calls Set
\* exactly once, under the key of the directive, if the encoding succeeds,
\* and not at all if it fails; a Set that succeeds leaves under the key the
\* encoded result with the TTL of the directive, and otherwise the cache is
\* as it was.  When the loading fails the call returns that error and
\* attempts no store.
C13_StoresOnceWithTheTTL ==
    (ReachedTheDatabase /\ DriverSucceeded)
    => IF Loaded
       THEN /\ last.err = Nil
            /\ last.count = DbCount /\ last.out = DbOut
            /\ Sets = IF last.env.encOK THEN 1 ELSE 0
            /\ \A i \in 1..Len(last.trace) :
                 last.trace[i].op = "Set"
                 => last.trace[i].key = LastCustom.cacheKey
            /\ IF last.env.encOK /\ last.env.setOK
               THEN /\ cache[LastCustom.cacheKey].ttl = LastCustom.cacheExpire
                    /\ cache[LastCustom.cacheKey].kind = LastTarget
                    /\ cache[LastCustom.cacheKey].count
                         = (IF LastCustom.isCount THEN DbCount ELSE 0)
                    /\ cache[LastCustom.cacheKey].rows = DbOut
               ELSE cache = last.before
       ELSE /\ last.err # Nil /\ last.count = 0
            /\ Sets = 0 /\ cache = last.before

\* the key holds bytes that do not decode, the database answers with two
\* rows: they are returned and stored with the TTL of the directive
C13_Witness ==
    /\ ReachedTheDatabase /\ DriverSucceeded /\ Loaded
    /\ last.before["k"].kind = "garbage"
    /\ last.dest = "slice" /\ ~LastCustom.isCount
    /\ last.env.encOK /\ last.env.setOK /\ LastCustom.cacheExpire = 60
    /\ last.count = 2 /\ cache["k"].rows = last.env.rows
    /\ cache["k"].ttl = 60 /\ Sets = 1

\* the last call was a Query for the row count, with caching enabled, whose
\* cache read found nothing under the key, and whose driver query succeeded
CountOnAMiss ==
    /\ ReadTheCache /\ LastCustom.isCount
    /\ last.env.getOK /\ LastEntry.kind = "none"
    /\ DriverSucceeded

\* C14: a Query for the row count with caching enabled, on a cache miss,
\* sends the driver once the SQL of the statement wrapped as
\* SELECT COUNT(*) FROM (<sql>) AS count, returns the integer it scanned
\* with a nil error, and the integer it stores under the key (when the
\* encoder and the cache accept it) is the integer it returns.
C14_CountIsStoredAndReturned ==
    CountOnAMiss
    => /\ CountOp(last.trace, "QueryContext") = 1
       /\ \A i \in 1..Len(last.trace) :
            last.trace[i].op = "QueryContext"
            => last.trace[i].name = "SELECT COUNT(*) FROM (%s) AS count"
       /\ last.err = Nil
       /\ last.count = Len(last.env.rows)
       /\ (last.env.encOK /\ last.env.setOK)
            => /\ cache[LastCustom.cacheKey].kind = "int"
               /\ cache[LastCustom.cacheKey].count = last.count

\* the statement selects two rows: 2 is returned and 2 is stored
C14_Witness ==
    /\ CountOnAMiss
    /\ last.env.encOK /\ last.env.setOK
    /\ last.count = 2 /\ cache["k"].kind = "int" /\ cache["k"].count = 2

\* the reports the sink's error method received during the last call
ErrReports == {i \in 1..Len(last.trace) : last.trace[i].op = "EventErrKv"}
\* the last call failed for one of the fatal reasons: the statement does not
\* interpolate, the driver fails or runs into the deadline, or the key of an
\* enabled directive is empty
FatalFailure ==
    /\ last.op \in {"Execute", "Query"}
    /\ last.err \in {ErrInterpolate, ErrDriver, ErrDeadline, ErrCacheKey}

\* C15: a call of Execute or Query that fails fatally has invoked the error
\* method of the sink exactly once, with the sql and the time fields, and
\* nothing follows that report in the call.
C15_OneReportPerFatalFailure ==
    FatalFailure
    => /\ Cardinality(ErrReports) = 1
       /\ \A i \in ErrReports :
            /\ {"sql", "time"} \subseteq last.trace[i].fields
            /\ i = Len(last.trace)

\* the last call handed a statement to the driver
CalledTheDriver ==
    /\ last.op \in {"Execute", "Query"}
    /\ CountOp(last.trace, "ExecContext")
         + CountOp(last.trace, "QueryContext") = 1
\* the driver would answer the last call with success, given the time
AnswersOK == last.env.drvOK
\* the last call got a result from the driver and, for a Query, loaded it
GotAResult ==
    IF last.op = "Execute" THEN last.result = "result"
    ELSE last.count = DbCount /\ last.out = DbOut

\* C16: with the timeout of the session unset (zero), a driver call of
\* Execute or Query that the driver answers with success is never aborted,
\* however long the answer takes: the call returns the result (for a Query
\* once the rows are loaded) and no deadline error.  With a timeout greater
\* than zero and an answer that takes longer than the timeout, the call
\* returns the deadline error of the driver and no result.
C16_TimeoutAbortsOnlyWhenSet ==
    CalledTheDriver
    => /\ (last.env.timeout = 0 /\ AnswersOK)
            => /\ last.err # ErrDeadline
               /\ (last.op = "Query" => Loaded) => last.err = Nil /\ GotAResult
       /\ (last.env.timeout > 0 /\ last.env.resp > last.env.timeout)
            => /\ last.err = "context deadline exceeded"
               /\ last.result = "nil" /\ last.count = 0 /\ last.out = <<>>
               /\ cache = last.before

\* the driver would answer with two rows after 3, the timeout is 2: the
\* Query returns the deadline error and stores nothing
C16_Witness ==
    /\ CalledTheDriver /\ last.op = "Query"
    /\ last.env.timeout = 2 /\ last.env.resp = 3
    /\ AnswersOK /\ Len(last.env.rows) = 2 /\ last.dest = "slice"
    /\ ReachedTheDatabase
    /\ last.err = ErrDeadline /\ last.count = 0
    /\ cache["k"] = NoEntry

(***************************************************************************)
(* Claims about CaseUpdateStmt, continued.                                 *)
(***************************************************************************)
\* C17: rendering the same statement twice gives the same SQL text and the
\* same bound values in the same order: a Build of the statement as the
\* first Build left it writes what the first Build wrote.
C17_RenderingTwiceIsTheSame ==
    (Callable /\ ~Build(Stmt).panic)
    => LET first == Build(Stmt)
           second == Build(first.b)
       IN  /\ ~second.panic
           /\ second.err = first.err
           /\ second.sql = first.sql
           /\ second.value = first.value

\* the text the claim expects for column number i in a statement of w rows
ExpectedColumn(i, w) ==
    LET col == Column[i]
        suffix == col[Len(col)]
        stripped == QuoteIdent(Join(SubSeq(col, 1, Len(col) - 1)))
    IN  (IF i > 1 THEN <<", ">> ELSE <<>>)
        \o (IF suffix = "+" THEN <<stripped, " = ", stripped, " + ">>
            ELSE IF suffix = "-" THEN <<stripped, " = ", stripped, " - ">>
            ELSE <<QuoteIdent(Join(col)), " = ">>)
        \o <<" CASE ", QuoteIdent(PKey)>>
        \o [x \in 1..w |-> " WHEN ? THEN ? "]
        \o <<" END ">>
\* the SET list of a statement: what stands between SET and WHERE
SetList(st) ==
    LET wh == CHOOSE k \in 1..Len(st.sql) : st.sql[k] = " WHERE "
    IN  SubSeq(st.sql, 4, wh - 1)

\* C18: in every statement sent to the driver, a column whose name ends in
\* + or - is rendered with the suffix stripped as
\* col = col <op> CASE pk WHEN ? THEN ? ... END, any other column as
\* col = CASE pk WHEN ? THEN ? ... END, with one WHEN per row of the window;
\* and the values bound for the CASE of column i are, row by row in the
\* order of the window, the key of the row and its i-th value.
C18_SuffixMakesADelta ==
    \A j \in 1..Len(driverLog) :
        LET st == driverLog[j]
        IN  /\ SetList(st)
                = Flatten([i \in 1..Len(Column) |->
                             ExpectedColumn(i, StmtWindow(st))])
            /\ CarriesItsWindow(j)

\* columns a and b+, two rows in one statement: a = CASE .., b = b + CASE ..
C18_Witness ==
    /\ Column = <<ColA, ColBPlus>> /\ Len(driverLog) = 1
    /\ StmtWindow(driverLog[1]) = 2
    /\ SetList(driverLog[1])
         = <<"\"a\"", " = ", " CASE ", "\"id\"",
             " WHEN ? THEN ? ", " WHEN ? THEN ? ", " END ",
             ", ", "\"b\"", " = ", "\"b\"", " + ", " CASE ", "\"id\"",
             " WHEN ? THEN ? ", " WHEN ? THEN ? ", " END ">>
    /\ StmtWhenVal(driverLog[1], 2, 1) = runRows[1].Val[2]

\* C20: every row of the row list has exactly as many values as the
\* statement has columns.
C20_OneValuePerColumn ==
    Callable => \A x \in 1..Len(Value) : Len(Value[x].Val) = Len(Column)

(***************************************************************************)
(* Two goroutines call Exec on one statement at the same time.  A call of  *)
(* Build is three steps here: it reads the window (the range loops), it    *)
(* cuts the window off the row list, and exec hands the statement to the   *)
(* driver.  The row list, RunLen and the driver are shared; what Build has *)
(* written to its buffer and the err of Exec are local to the goroutine.   *)
(***************************************************************************)
Goroutines == {1, 2}
\* RunLen of the statement the goroutines are started on
GoRunLens == {0, 1, 2}

\* a goroutine at the head of the loop of Exec
AtLoop == [pc |-> "loop", err |-> Nil, sql |-> <<>>, value |-> <<>>]

\* the statement after CaseUpdate, Columns, Values per row and SetRunLen, at
\* the moment both goroutines enter Exec
InitConcurrent ==
    /\ Table \in Tables
    /\ PKey = "id"
    /\ RunLen \in GoRunLens
    /\ Column \in {<<ColA>>, <<ColA, ColBPlus>>}
    /\ \E n \in 1..MaxRows : Value = RowList(n)
    /\ pc = "go"
    /\ execErr = Nil
    /\ runRows = Value
    /\ runRunLen = RunLen
    /\ driverLog = <<>>
    /\ trace = <<>>
    /\ cache = [k \in CacheKeys \ {""} |-> NoEntry]
    /\ last = NoCall
    /\ procs = [g \in Goroutines |-> AtLoop]

\* MayBuild that waits while another goroutine is inside Build
MayBuildLocked(g) == \A h \in Goroutines \ {g} : procs[h].pc # "remove"

\* whether goroutine g may enter Build now: Build and Exec take no lock
MayBuild(g) == TRUE

\* for len(b.Value) > 0 && err == nil
GoLoop(g) ==
    /\ procs[g].pc = "loop"
    /\ procs' = [procs EXCEPT
                   ![g].pc = IF ExecLoop(Len(Value), procs[g].err)
                             THEN "build" ELSE "done"]
    /\ UNCHANGED <<cuVars, engVars>>

\* Build up to the end of its range loops: RunLen gets its default, the
\* checks are made, the window is written to the buffer of the goroutine;
\* when a check fails exec reports the error and Exec has it in err
GoRead(g) ==
    /\ procs[g].pc = "build"
    /\ MayBuild(g)
    /\ LET built == Build(Stmt)
           r == exec(built, TRUE, <<>>, cache, NoTimeout(TRUE))
       IN  /\ RunLen' = built.b.RunLen
           /\ IF built.err # Nil
              THEN /\ procs' = [procs EXCEPT ![g].pc = "loop",
                                             ![g].err = r.err]
                   /\ trace' = trace \o r.trace
              ELSE /\ procs' = [procs EXCEPT ![g].pc = "remove",
                                             ![g].sql = built.sql,
                                             ![g].value = built.value]
                   /\ UNCHANGED trace
    /\ UNCHANGED <<Table, PKey, Column, Value, pc, execErr, runRows,
                   runRunLen, driverLog, engVars>>

\* b.Value = b.Value[b.RunLen:], or the empty list
GoRemove(g) ==
    /\ procs[g].pc = "remove"
    /\ Value' = RemoveWindow(Value, RunLen)
    /\ procs' = [procs EXCEPT ![g].pc = "send"]
    /\ UNCHANGED <<Table, PKey, RunLen, Column, pc, execErr, runRows,
                   runRunLen, driverLog, trace, engVars>>

\* exec on what Build wrote: the driver call and its outcome
GoSend(g) ==
    /\ procs[g].pc = "send"
    /\ \E interpOK, drvOK \in BOOLEAN :
        LET built == [panic |-> FALSE, err |-> Nil, sql |-> procs[g].sql,
                      value |-> procs[g].value]
            r == exec(built, interpOK, <<>>, cache, NoTimeout(drvOK))
        IN  /\ procs' = [procs EXCEPT ![g] = [AtLoop EXCEPT !.err = r.err]]
            /\ trace' = trace \o r.trace
            /\ driverLog' =
                 IF r.called
                 THEN Append(driverLog,
                             [sql |-> built.sql, value |-> built.value,
                              ok |-> r.err = Nil])
                 ELSE driverLog
    /\ UNCHANGED <<Table, PKey, RunLen, Column, Value, pc, execErr, runRows,
                   runRunLen, engVars>>

NextConcurrent ==
    \E g \in Goroutines :
        \/ GoLoop(g)
        \/ GoRead(g)
        \/ GoRemove(g)
        \/ GoSend(g)

SpecConcurrent == InitConcurrent /\ [][NextConcurrent]_vars

\* the keys statement j names in its IN list are the keys of the rows
\* o + 1 .. o + w of the row list the goroutines started on
SegmentAt(j, o) ==
    LET keys == StmtWhereKeys(driverLog[j])
    IN  /\ o + Len(keys) <= Len(runRows)
        /\ \A x \in 1..Len(keys) : keys[x] = runRows[o + x].Key
\* the row at position x of that list was sent in statement j
SentIn(x, j) ==
    \E y \in 1..StmtWindow(driverLog[j]) :
        StmtWhereKeys(driverLog[j])[y] = runRows[x].Key
\* both goroutines have left Exec, and neither with an error
BothReturnedNil ==
    \A g \in Goroutines : procs[g].pc = "done" /\ procs[g].err = Nil

\* C19: Exec and Build take no lock: while one goroutine stands between the
\* reading of its window and the removal, the other one, at the entry of
\* Build, can read the front of the same list.  Every statement sent
\* carries a stretch of consecutive rows of the list, and the list is
\* always a tail of the list at the start; nothing more: the witness shows
\* a row sent twice and a row cut off without being sent.
C19_NothingExcludesASecondBuild ==
    pc = "go"
    => /\ \A g, h \in Goroutines :
            (g # h /\ procs[g].pc = "remove" /\ procs[h].pc = "build")
            => ENABLED GoRead(h)
       /\ \A j \in 1..Len(driverLog) :
            \E o \in 0..Len(runRows) : SegmentAt(j, o)
       /\ \E o \in 0..Len(runRows) :
            Value = SubSeq(runRows, o + 1, Len(runRows))

\* three rows, RunLen 1, both goroutines back from Exec with nil: the first
\* row went to the driver in two statements, the second row was cut off the
\* list and never sent
C19_Witness ==
    /\ BothReturnedNil
    /\ Len(runRows) = 3 /\ runRunLen = 1 /\ Value = <<>>
    /\ \E j, k \in 1..Len(driverLog) :
         j # k /\ SentIn(1, j) /\ SentIn(1, k)
    /\ \A j \in 1..Len(driverLog) : driverLog[j].ok /\ ~SentIn(2, j)

(***************************************************************************)
(* The engine against a cache that may take its time: cacheResp is how     *)
(* long one call of the cache (GetBytes, Set, Del) takes to return.        *)
(***************************************************************************)
SlowQueryEnvs == [getOK : {TRUE}, drvOK : {TRUE}, rows : DbRows,
                  loadOK : {TRUE}, encOK : {TRUE}, setOK : {TRUE},
                  resp : Resps, timeout : Timeouts, cacheResp : Resps]
SlowExecEnvs == [drvOK : BOOLEAN, delOK : {TRUE}, resp : Resps,
                 timeout : Timeouts, cacheResp : Resps]

NextSlowCache ==
    \/ /\ Ready
       /\ \E interpOK \in BOOLEAN, customs \in CustomArgs,
             env \in SlowExecEnvs :
            Execute(interpOK, customs, env)
    \/ /\ Ready
       /\ \E interpOK \in BOOLEAN, dest \in Dests, customs \in CustomArgs,
             env \in SlowQueryEnvs :
            Query(interpOK, dest, customs, env)
    \/ Return

SpecSlowCache == InitEngine /\ [][NextSlowCache]_vars

\* the calls of the cache the last call made
CacheCalls ==
    CountOp(last.trace, "GetBytes") + CountOp(last.trace, "Set")
        + CountOp(last.trace, "Del")

\* C21: with a timeout of the session configured, a call of Execute or
\* Query whose cache call is still in flight when the deadline passes is
\* aborted: it returns the deadline error, and no result, count or rows.
C21_CacheCallsKeepTheDeadline ==
    (/\ last.op \in {"Execute", "Query"}
     /\ CacheCalls >= 1
     /\ last.env.timeout > 0 /\ last.env.cacheResp > last.env.timeout)
    => /\ last.err = ErrDeadline
       /\ last.result = "nil" /\ last.count = 0 /\ last.out = <<>>

(***************************************************************************)
(* Claims about the windows of CaseUpdateStmt, under SpecCaseUpdate.       *)
(***************************************************************************)
\* the batch size in force for a Build on the statement as it is
BatchSize == IF RunLen = 0 THEN 1000 ELSE RunLen
Min(a, b) == IF a < b THEN a ELSE b
\* the keys of rows a..b of a row list
KeysOf(rows, a, b) == [x \in 1..(b - a + 1) |-> rows[a + x - 1].Key]

\* C22: a statement that Build writes names in its IN list the keys of the
\* first min(batch size, number of rows) rows of the row list as it is
\* before the Build, in order; the WHEN clauses of every column carry the
\* same keys in the same order; and Build leaves the row list without that
\* prefix.  So the statements of an Exec run carry consecutive windows of
\* the list Exec was entered with, and when Exec returns nil they add up
\* to the whole list.
C22_WhereKeysAreTheWindow ==
    /\ (Callable /\ ~Build(Stmt).panic /\ Build(Stmt).err = Nil)
        => LET r == Build(Stmt)
               w == Min(BatchSize, Len(Value))
           IN  /\ StmtWindow(r) = w
               /\ StmtWhereKeys(r) = KeysOf(Value, 1, w)
               /\ \A i \in 1..Len(Column) : \A x \in 1..w :
                    /\ StmtWhenKey(r, i, x) = Value[x].Key
                    /\ StmtWhenVal(r, i, x) = Value[x].Val[i]
               /\ r.b.Value = SubSeq(Value, w + 1, Len(Value))
    /\ (pc = "exec" \/ pc = "done")
        => /\ \A j \in 1..Len(driverLog) : CarriesItsWindow(j)
           /\ (pc = "done" /\ execErr = Nil /\ driverLog # <<>>)
                => SentBefore(Len(driverLog) + 1) = Len(runRows)

\* three rows, batch size 2, after the first statement of the run: it named
\* the keys of rows 1 and 2, row 3 is what is left
C22_Witness ==
    /\ pc = "exec" /\ Len(runRows) = 3 /\ runRunLen = 2
    /\ Len(driverLog) = 1
    /\ StmtWhereKeys(driverLog[1]) = KeysOf(runRows, 1, 2)
    /\ Value = <<runRows[3]>>

\* Exec runs on: a loop turn that can be taken is taken, and Exec returns
\* when its loop condition fails
SpecCaseUpdateFair ==
    SpecCaseUpdate /\ WF_vars(ExecIter) /\ WF_vars(ExecReturn)

\* every column has a name and every row a value for every column
EveryRowFits ==
    /\ \A i \in 1..Len(Column) : Len(Column[i]) > 0
    /\ \A x \in 1..Len(Value) : Len(Value[x].Val) >= Len(Column)

\* C23: whatever integer SetRunLen was given, an Exec that is under way on
\* rows that fit the columns eventually returns, with the row list empty or
\* with an error.
C23_ExecAlwaysReturns ==
    (pc = "exec" /\ EveryRowFits)
        ~> (pc = "done" /\ (Value = <<>> \/ execErr # Nil))

\* how many rows the statements of the run carried, the failed one included
SentSoFar == SentBefore(Len(driverLog) + 1)
\* the driver failed on the last statement of the run
DriverFailed ==
    /\ (pc = "exec" \/ pc = "done")
    /\ execErr = ErrDriver

\* C24: the window is off the row list when the driver is called: after a
\* driver failure on window j the row list is what follows window j in the
\* list Exec was entered with, no row of windows 1..j and every row behind
\* them; so the first statement of another Exec on the statement carries
\* the window after j, and when nothing follows j it sends nothing.
C24_FailedWindowIsNotRetried ==
    DriverFailed
    => /\ ~driverLog[Len(driverLog)].ok
       /\ Value = SubSeq(runRows, SentSoFar + 1, Len(runRows))
       /\ (pc = "done" /\ ~Build(Stmt).panic)
            => LET next == Build(Stmt)
               IN  StmtWhereKeys(next)
                     = KeysOf(runRows, SentSoFar + 1,
                              SentSoFar + StmtWindow(next))

\* three rows one by one, the driver fails on the second: the third row
\* alone is left, and a new Exec would send it first
C24_Witness ==
    /\ DriverFailed /\ pc = "done"
    /\ Len(runRows) = 3 /\ runRunLen = 1 /\ Len(driverLog) = 2
    /\ Value = <<runRows[3]>>
    /\ StmtWhereKeys(Build(Stmt)) = <<runRows[3].Key>>

(***************************************************************************)
(* Claims about the engine: the order of the steps and the frame.          *)
(***************************************************************************)
\* the driver call of the last Execute returned an error
ExecuteFailedInDriver ==
    /\ last.op = "Execute" /\ last.interpOK
    /\ ~DriverSucceeded

\* C25: in Execute the cache delete and the timing event come after the
\* driver call and only when it succeeded: an Execute whose driver call
\* fails returns that error, deletes nothing, emits no timing event and
\* leaves the cache as it was; in an Execute that succeeds, the driver call
\* stands before the delete and the timing event in the order of the steps.
C25_DeleteAndTimingFollowSuccess ==
    /\ ExecuteFailedInDriver
        => /\ last.err \in {ErrDriver, ErrDeadline}
           /\ last.result = "nil"
           /\ Deletes = 0
           /\ CountOp(last.trace, "TimingKv") = 0
           /\ cache = last.before
    /\ last.op = "Execute"
        => \A i \in 1..Len(last.trace) :
             last.trace[i].op \in {"Del", "TimingKv"}
             => /\ last.err = Nil
                /\ \E j \in 1..(i - 1) : last.trace[j].op = "ExecContext"

\* the driver fails under a directive that names a cached key: the entry is
\* still there
C25_Witness ==
    /\ ExecuteFailedInDriver /\ ~last.env.drvOK
    /\ LastCustom.isCache /\ LastCustom.cacheKey = "k"
    /\ last.err = ErrDriver
    /\ cache["k"].kind = "slice" /\ Len(cache["k"].rows) = 2

\* the last call was made without caching: no directive, or one that does
\* not enable it
WithoutCaching ==
    /\ last.op \in {"Execute", "Query"}
    /\ ~LastCustom.isCache
\* the driver queries of the last call
DriverQueries == CountOp(last.trace, "QueryContext")

\* C26 as stated: without caching enabled Query and Execute make no cache
\* call, and Query always issues the driver query.
C26_QueryAlwaysAsksTheDriver ==
    WithoutCaching
    => /\ CacheCalls = 0 /\ cache = last.before
       /\ last.op = "Query" => DriverQueries = 1

\* C26, amended: without caching enabled Query and Execute make no cache
\* call (no GetBytes, no Set, no Del) and leave the cache as it is, whatever
\* key and TTL the directive carries; and Query issues the driver query
\* exactly once whenever the statement interpolates, and not at all when it
\* does not.
C26_NoCacheCallWithoutCaching ==
    WithoutCaching
    => /\ CacheCalls = 0 /\ cache = last.before
       /\ last.op = "Query"
            => DriverQueries = IF last.interpOK THEN 1 ELSE 0

\* a directive with the key of a cached count but caching not enabled: the
\* Query counts in the database and the entry stays as it was
C26_Witness ==
    /\ WithoutCaching /\ last.op = "Query" /\ last.customs # <<>>
    /\ LastCustom.cacheKey = "k" /\ LastCustom.isCount
    /\ last.before["k"].kind = "int" /\ last.before["k"].count = 1
    /\ last.interpOK /\ DriverSucceeded
    /\ last.count = 2 /\ DriverQueries = 1
    /\ cache["k"].count = 1
====
